---- MODULE Spec2Model ----
(***************************************************************************)
(* Model of src/app.py: the Flask/SQLAlchemy restaurant backend.           *)
(*                                                                         *)
(* The committed SQLite database is the variable db, a record of the       *)
(* eight tables, each a sequence of rows in rowid order.  Every route      *)
(* handler is one action over db; a handler works on its session (a copy   *)
(* of the store it writes to) and the request ends in commit or rollback.  *)
(*                                                                         *)
(* JSON values: a string field that is absent, null or empty is NoStr      *)
(* (the handlers test such fields by truthiness only); a numeric field is  *)
(* a record [kind, n], see JInt, JFrac, JStr, JBad, Absent.                *)
(***************************************************************************)
EXTENDS Integers, Sequences, FiniteSets, TLC

VARIABLES
  db,      \* the committed store (rms.db)
  prev,    \* history: the committed store before the last request
  last,    \* history: the last request, [op, rid, body]
  resp,    \* the response to the last request, [status, body]
  nreq,    \* history: number of requests handled
  pc,      \* SpecConc: position of each in-flight create_order request
  sess,    \* SpecConc: each in-flight request's SQLAlchemy session
  writer   \* SpecConc: the connection holding SQLite's write lock, 0 if none

vars == <<db, prev, last, resp, nreq, pc, sess, writer>>

\* ------------------------------------------------------------------ bounds
MaxRequests == 3      \* requests handled in one run of Spec
MaxViewTables == 2    \* rows of Table beside the demo ones in a store of SpecView
MaxViewBookings == 3  \* rows of Booking in a store of SpecView
NumConns == 2         \* concurrent create_order requests of SpecConc

\* ------------------------------------------------------------- JSON values
NoStr == ""
NoId == 0   \* None / absent / 0: all falsy for `if mid:` and never a rowid

Absent == [kind |-> "absent", n |-> 0]
JInt(n) == [kind |-> "int", n |-> n]
\* a JSON number with a fractional part, t tenths (2.5 is JFrac(25))
JFrac(t) == [kind |-> "frac", n |-> t]
\* a JSON string holding the decimal integer n ("3")
JStr(n) == [kind |-> "str", n |-> n]
\* a JSON value no numeric conversion accepts ("x", null, {})
JBad == [kind |-> "bad", n |-> 0]

Raise == [ok |-> FALSE, v |-> 0]
Ok(v) == [ok |-> TRUE, v |-> v]

\* Python int(x): an int is itself, a float is truncated toward zero, a
\* string of digits is parsed, anything else raises
PyInt(x) ==
  CASE x.kind = "int" -> Ok(x.n)
    [] x.kind = "str" -> Ok(x.n)
    [] x.kind = "frac" -> Ok(IF x.n >= 0 THEN x.n \div 10 ELSE -((-x.n) \div 10))
    [] OTHER -> Raise

\* Python float(x), in tenths
PyFloat(x) ==
  CASE x.kind = "int" -> Ok(10 * x.n)
    [] x.kind = "str" -> Ok(10 * x.n)
    [] x.kind = "frac" -> Ok(x.n)
    [] OTHER -> Raise

\* dict.get(key, default) for a numeric field
GetOr(x, default) == IF x.kind = "absent" THEN default ELSE x

\* ------------------------------------------------------------------- store
EmptyDb ==
  [users |-> <<>>, restaurants |-> <<>>, menu_items |-> <<>>, tables |-> <<>>,
   bookings |-> <<>>, incomes |-> <<>>, feedback |-> <<>>, orders |-> <<>>]

\* INTEGER PRIMARY KEY of a table no row is ever deleted from
NextId(rows) == Len(rows) + 1

\* Query.first() over the matching row indexes: the first one, 0 if none
First(matching) ==
  IF matching = {} THEN 0
  ELSE CHOOSE i \in matching : \A j \in matching : i <= j

\* Restaurant.query.get_or_404(rid)
RestaurantExists(store, rid) == \E i \in 1..Len(store.restaurants) : store.restaurants[i].id = rid

GetRestaurant(store, rid) ==
  store.restaurants[First({i \in 1..Len(store.restaurants) : store.restaurants[i].id = rid})]

\* init_db(): the demo restaurant with three menu items and three tables
SeedDb ==
  [EmptyDb EXCEPT
     !.restaurants = <<[id |-> 1, name |-> "Spice & Flavor", logo |-> "spice-logo"]>>,
     !.menu_items =
       <<[id |-> 1, restaurant_id |-> 1, name |-> "Masala Dosa", price |-> 1200,
          img |-> "dosa", order_count |-> 45],
         [id |-> 2, restaurant_id |-> 1, name |-> "Paneer Butter Masala", price |-> 2400,
          img |-> "paneer", order_count |-> 32],
         [id |-> 3, restaurant_id |-> 1, name |-> "Biryani", price |-> 2800,
          img |-> "biryani", order_count |-> 67]>>,
     !.tables =
       <<[id |-> 1, restaurant_id |-> 1, num |-> "1", status |-> "Available"],
         [id |-> 2, restaurant_id |-> 1, num |-> "2", status |-> "Available"],
         [id |-> 3, restaurant_id |-> 1, num |-> "3", status |-> "Occupied"]>>]

\* ------------------------------------------------------------- serializers
MenuItemToDict(m) ==
  [id |-> m.id, name |-> m.name, price |-> m.price,
   img |-> IF m.img # NoStr THEN m.img ELSE "placeholder-dish",
   orderCount |-> m.order_count]

TableToDict(t) == [id |-> t.id, num |-> t.num, status |-> t.status]

\* Booking.to_dict: tableNum is the owning table's num
BookingToDict(store, b) ==
  [id |-> b.id,
   tableNum |-> LET k == First({i \in 1..Len(store.tables) :
                                          store.tables[i].id = b.table_id})
                IN IF k # 0 THEN store.tables[k].num ELSE "raw-table-id",
   userName |-> b.user_name, start |-> b.start, end |-> b.end]

FeedbackToDict(f) ==
  [id |-> f.id, userName |-> f.user_name, foodRating |-> f.food_rating,
   serviceRating |-> f.service_rating, text |-> f.text]

OrderToDict(o) ==
  [id |-> o.id, userName |-> o.user_name, items |-> o.items,
   total |-> o.total, method |-> o.method]

Logo(r) == IF r.logo # NoStr THEN [url |-> r.logo] ELSE [avatar |-> r.name]

\* the relationship collections of a restaurant and of a table
MenuOf(store, rid) == SelectSeq(store.menu_items, LAMBDA m : m.restaurant_id = rid)
TablesOf(store, rid) == SelectSeq(store.tables, LAMBDA t : t.restaurant_id = rid)
OrdersOf(store, rid) == SelectSeq(store.orders, LAMBDA o : o.restaurant_id = rid)
IncomesOf(store, rid) == SelectSeq(store.incomes, LAMBDA i : i.restaurant_id = rid)
FeedbackOf(store, rid) == SelectSeq(store.feedback, LAMBDA f : f.restaurant_id = rid)
BookingsOf(store, tid) == SelectSeq(store.bookings, LAMBDA b : b.table_id = tid)

\* variant: every stored booking, in booking order, whatever its table
FlattenBookingsOfAllTables(store, ts, i) ==
  [k \in 1..Len(store.bookings) |-> BookingToDict(store, store.bookings[k])]

RECURSIVE FlattenBookings(_, _, _)
\* to_full's nested loop: for t in self.tables: for b in t.bookings: append
FlattenBookings(store, ts, i) ==
  IF i > Len(ts) THEN <<>>
  ELSE LET bs == BookingsOf(store, ts[i].id)
       IN [n \in 1..Len(bs) |-> BookingToDict(store, bs[n])]
          \o FlattenBookings(store, ts, i + 1)

ToListItem(store, r) ==
  [id |-> r.id, name |-> r.name, logo |-> Logo(r),
   menuCount |-> Len(MenuOf(store, r.id)), tableCount |-> Len(TablesOf(store, r.id))]

ToFull(store, r) ==
  [id |-> r.id, name |-> r.name, logo |-> Logo(r),
   menu |-> [n \in 1..Len(MenuOf(store, r.id)) |->
              MenuItemToDict(MenuOf(store, r.id)[n])],
   tables |-> [n \in 1..Len(TablesOf(store, r.id)) |->
                TableToDict(TablesOf(store, r.id)[n])],
   orders |-> [n \in 1..Len(OrdersOf(store, r.id)) |->
                OrderToDict(OrdersOf(store, r.id)[n])],
   incomes |-> [n \in 1..Len(IncomesOf(store, r.id)) |->
                 IncomesOf(store, r.id)[n].amount],
   feedback |-> [n \in 1..Len(FeedbackOf(store, r.id)) |->
                  FeedbackToDict(FeedbackOf(store, r.id)[n])],
   bookings |-> FlattenBookings(store, TablesOf(store, r.id), 1)]

\* ------------------------------------------------------- unit of work
\* variant: the failing request's flushed writes stay in the store
RollbackKeepsFlushed(store, session) == session

\* variant: an unknown restaurant id answers an empty success payload
NotFoundAsEmpty(store) == [db |-> store, status |-> 200, body |-> [empty |-> TRUE]]

\* db.session.commit(): the session's writes become the committed store
Commit(store, session) == session

\* an exception leaves the handler: Flask-SQLAlchemy's teardown removes the
\* session, which rolls back whatever was flushed and not committed
Rollback(store, session) == store

Result(store, status, body) == [db |-> store, status |-> status, body |-> body]
Error(msg) == [error |-> msg]
NotFound(store) == Result(store, 404, Error("Not Found"))
ServerError(store, session) == Result(Rollback(store, session), 500, Error("Internal Server Error"))

\* werkzeug's generate_password_hash / check_password_hash
GeneratePasswordHash(password) == <<"pbkdf2", password>>
CheckPasswordHash(hash, password) == hash = GeneratePasswordHash(password)

\* variant: the duplicate-email lookup finds nothing
UserByEmailNone(store, email) == 0

\* User.query.filter_by(email=email).first(): index of the row, 0 if none
UserByEmail(store, email) ==
  First({i \in 1..Len(store.users) : store.users[i].email = email})

\* the UNIQUE constraint on user.email, checked by the store at flush
UniqueEmails(store) ==
  \A i, j \in 1..Len(store.users) :
    store.users[i].email = store.users[j].email => i = j

\* the PRIMARY KEY constraint on order.id, checked by the store at flush
UniqueOrderIds(store) ==
  \A i, j \in 1..Len(store.orders) :
    store.orders[i].id = store.orders[j].id => i = j

\* ----------------------------------------------------------------- routes
\* variant: r.id read with no flush before it (still None)
UnflushedRestaurantId(store) == 0

\* r.id once db.session.flush() has inserted the new Restaurant
FlushedRestaurantId(store) == NextId(store.restaurants)

\* POST /api/register
register(store, data) ==
  IF data.type = NoStr \/ data.name = NoStr \/ data.email = NoStr \/ data.password = NoStr
  THEN Result(store, 400, Error("Missing fields"))
  ELSE IF UserByEmail(store, data.email) # 0
  THEN Result(store, 400, Error("Email already registered"))
  ELSE
    LET isRest == data.type = "restaurant"
        rid == IF isRest THEN FlushedRestaurantId(store) ELSE 0
        s1 == IF isRest
              THEN [store EXCEPT !.restaurants =
                      Append(@, [id |-> rid, name |-> data.name, logo |-> NoStr])]
              ELSE store
        s2 == [s1 EXCEPT !.users =
                 Append(@, [id |-> NextId(store.users), name |-> data.name,
                            email |-> data.email,
                            password_hash |-> GeneratePasswordHash(data.password),
                            type |-> data.type, restaurant_id |-> rid])]
    IN IF UniqueEmails(s2)
       THEN Result(Commit(store, s2), 201, [message |-> "Registration successful"])
       ELSE ServerError(store, s2)

\* variant: the failure answer tells an unknown email from a wrong password
InvalidCredentialsTelling(store, k) ==
  [db |-> store, status |-> 401,
   body |-> [error |-> IF k = 0 THEN "Unknown email" ELSE "Wrong password"]]

\* the one failure answer of login, k the index of the user found or 0
InvalidCredentials(store, k) == Result(store, 401, Error("Invalid email or password"))

\* POST /api/login
login(store, data) ==
  IF data.email = NoStr \/ data.password = NoStr
  THEN Result(store, 400, Error("Missing credentials"))
  ELSE
    LET k == UserByEmail(store, data.email)
    IN IF k = 0 \/ ~CheckPasswordHash(store.users[k].password_hash, data.password)
       THEN InvalidCredentials(store, k)
       ELSE LET user == store.users[k]
            IN Result(store, 200,
                 IF user.type = "restaurant"
                 THEN [id |-> user.id, name |-> user.name, email |-> user.email,
                       type |-> user.type, restaurantId |-> user.restaurant_id]
                 ELSE [id |-> user.id, name |-> user.name, email |-> user.email,
                       type |-> user.type])

\* GET /api/restaurants
list_restaurants(store) ==
  Result(store, 200,
         [list |-> [n \in 1..Len(store.restaurants) |->
                      ToListItem(store, store.restaurants[n])]])

\* GET /api/restaurants/<rid>
get_restaurant(store, rid) ==
  IF ~RestaurantExists(store, rid) THEN NotFound(store)
  ELSE Result(store, 200, ToFull(store, GetRestaurant(store, rid)))

\* POST /api/restaurants/<rid>/menu
add_menu_item(store, rid, data) ==
  IF ~RestaurantExists(store, rid) THEN NotFound(store)
  ELSE IF data.name = NoStr \/ data.price.kind = "absent"
  THEN Result(store, 400, Error("Missing name or price"))
  ELSE IF ~PyFloat(data.price).ok THEN ServerError(store, store)
  ELSE
    LET mi == [id |-> NextId(store.menu_items), restaurant_id |-> rid,
               name |-> data.name, price |-> PyFloat(data.price).v,
               img |-> data.img, order_count |-> 0]
        s1 == [store EXCEPT !.menu_items = Append(@, mi)]
    IN Result(Commit(store, s1), 201,
              [message |-> "Menu item added", item |-> MenuItemToDict(mi)])

\* variant: the table lookup filters by num alone
TableByNumAnyRestaurant(store, rid, num) ==
  IF \E i \in 1..Len(store.tables) : store.tables[i].num = num
  THEN CHOOSE i \in 1..Len(store.tables) : store.tables[i].num = num
  ELSE 0

\* Table.query.filter_by(restaurant_id=r.id, num=num).first()
TableByNum(store, rid, num) ==
  First({i \in 1..Len(store.tables) :
           store.tables[i].restaurant_id = rid /\ store.tables[i].num = num})

\* POST /api/restaurants/<rid>/tables
add_table(store, rid, data) ==
  IF ~RestaurantExists(store, rid) THEN NotFound(store)
  ELSE IF data.num = NoStr
  THEN Result(store, 400, Error("Missing table number"))
  ELSE
    LET status == IF data.status = NoStr THEN "Available" ELSE data.status
        k == TableByNum(store, rid, data.num)
        t == IF k # 0 THEN [store.tables[k] EXCEPT !.status = status]
             ELSE [id |-> NextId(store.tables), restaurant_id |-> rid,
                   num |-> data.num, status |-> status]
        s1 == IF k # 0 THEN [store EXCEPT !.tables[k] = t]
              ELSE [store EXCEPT !.tables = Append(@, t)]
    IN Result(Commit(store, s1), 201,
              [message |-> "Table updated", table |-> TableToDict(t)])

\* POST /api/restaurants/<rid>/income
add_income(store, rid, data) ==
  IF ~RestaurantExists(store, rid) THEN NotFound(store)
  ELSE IF ~PyFloat(data.amount).ok
  THEN Result(store, 400, Error("Invalid amount"))
  ELSE
    LET s1 == [store EXCEPT !.incomes =
                 Append(@, [id |-> NextId(store.incomes), restaurant_id |-> rid,
                            amount |-> PyFloat(data.amount).v])]
    IN Result(Commit(store, s1), 201, [message |-> "Income added"])

\* POST /api/restaurants/<rid>/feedback
add_feedback(store, rid, data) ==
  IF ~RestaurantExists(store, rid) THEN NotFound(store)
  ELSE
    LET food == PyInt(GetOr(data.foodRating, JInt(0)))
        service == PyInt(GetOr(data.serviceRating, JInt(0)))
    IN IF ~food.ok \/ ~service.ok THEN ServerError(store, store)
       ELSE
         LET s1 == [store EXCEPT !.feedback =
                      Append(@, [id |-> NextId(store.feedback), restaurant_id |-> rid,
                                 user_name |-> IF data.userName = NoStr THEN "Anonymous"
                                               ELSE data.userName,
                                 food_rating |-> food.v, service_rating |-> service.v,
                                 text |-> data.text])]
         IN Result(Commit(store, s1), 201, [message |-> "Feedback submitted"])

\* variant: the menu item lookup filters by id alone
MenuItemByIdAnyRestaurant(store, mid, rid) ==
  IF \E i \in 1..Len(store.menu_items) : store.menu_items[i].id = mid
  THEN CHOOSE i \in 1..Len(store.menu_items) : store.menu_items[i].id = mid
  ELSE 0

\* MenuItem.query.filter_by(id=mid, restaurant_id=r.id).first()
MenuItemById(store, mid, rid) ==
  First({i \in 1..Len(store.menu_items) :
           store.menu_items[i].id = mid /\ store.menu_items[i].restaurant_id = rid})

RECURSIVE UpdateOrderCounts(_, _, _, _)
\* the loop of create_order over items[i..]: [ok, v] with v the session after
\* the loop, or ok = FALSE when int(qty) raised
UpdateOrderCounts(session, rid, items, i) ==
  IF i > Len(items) THEN Ok(session)
  ELSE
    LET mid == items[i].id
        qty == PyInt(GetOr(items[i].qty, JInt(1)))
    IN IF ~qty.ok THEN [ok |-> FALSE, v |-> session]
       ELSE
         LET k == IF mid # NoId THEN MenuItemById(session, mid, rid) ELSE 0
             s1 == IF k # 0
                   THEN [session EXCEPT !.menu_items[k].order_count = @ + qty.v]
                   ELSE session
         IN UpdateOrderCounts(s1, rid, items, i + 1)

\* POST /api/restaurants/<rid>/orders; order_id is the token uuid4 gave
create_order(store, rid, data, order_id) ==
  IF ~RestaurantExists(store, rid) THEN NotFound(store)
  ELSE
    LET total == PyFloat(GetOr(data.total, JInt(0)))
    IN IF ~total.ok THEN ServerError(store, store)
       ELSE
         LET o == [id |-> order_id, restaurant_id |-> rid,
                   user_name |-> IF data.userName = NoStr THEN "Guest" ELSE data.userName,
                   items |-> data.items, total |-> total.v,
                   method |-> IF data.method = NoStr THEN "online" ELSE data.method]
             s1 == [store EXCEPT !.orders = Append(@, o)]
             looped == UpdateOrderCounts(s1, rid, data.items, 1)
         IN IF ~looped.ok \/ ~UniqueOrderIds(s1)
            THEN ServerError(store, looped.v)
            ELSE Result(Commit(store, looped.v), 201,
                        [message |-> "Order placed", orderId |-> order_id])

\* GET /api/health
health(store) == Result(store, 200, [status |-> "ok", database |-> "connected"])

\* --------------------------------------------------------- request bodies
Rids == {1, 2}
OrderIds == {"a1b2c3d4", "e5f6a7b8"}
NoBody == [empty |-> TRUE]

RegisterBodies ==
  [type : {"customer", "restaurant"}, name : {"Raj"}, email : {"a@x", "b@x"},
   password : {"pw1"}]
  \cup {[type |-> "restaurant", name |-> "Raj", email |-> NoStr, password |-> "pw1"],
        [type |-> NoStr, name |-> "Raj", email |-> "a@x", password |-> "pw1"]}

LoginBodies ==
  [email : {"a@x", "b@x"}, password : {"pw1", "pw2"}]
  \cup {[email |-> "a@x", password |-> NoStr]}

MenuBodies ==
  {[name |-> "Dal", price |-> JInt(90), img |-> NoStr],
   [name |-> NoStr, price |-> JInt(90), img |-> NoStr],
   [name |-> "Dal", price |-> JBad, img |-> NoStr]}

\* status NoStr: the request has no status field
TableBodies ==
  {[num |-> "1", status |-> "Occupied"],
   [num |-> "1", status |-> NoStr],
   [num |-> "7", status |-> "Reserved"],
   [num |-> NoStr, status |-> NoStr]}

IncomeBodies == {[amount |-> JInt(500)], [amount |-> JBad]}

FeedbackBodies ==
  {[userName |-> "Asha", foodRating |-> JInt(4), serviceRating |-> Absent, text |-> "good"],
   [userName |-> NoStr, foodRating |-> JBad, serviceRating |-> JInt(5), text |-> NoStr]}

LineItem(id, qty) == [id |-> id, qty |-> qty]

\* item lists of an order: empty; the quantity 3; item 1 twice, once with no
\* qty, around item 4, which names no item until one is added and may then be
\* another restaurant's; a line with no id and a negative quantity; a
\* malformed qty after a good line; a fractional qty
ItemLists ==
  {<<>>,
   <<LineItem(1, JInt(3))>>,
   <<LineItem(1, JInt(2)), LineItem(4, JStr(2)), LineItem(1, Absent)>>,
   <<LineItem(NoId, JInt(2)), LineItem(2, JInt(-1))>>,
   <<LineItem(1, JInt(2)), LineItem(2, JBad)>>,
   <<LineItem(3, JFrac(25))>>}

OrderBodies ==
  [userName : {NoStr}, items : ItemLists, method : {NoStr}, total : {Absent}]
  \cup {[userName |-> "Asha", items |-> <<LineItem(1, JInt(1))>>, method |-> "cash",
         total |-> JBad]}

\* ---------------------------------------------------------------- actions
Request(op, rid, data, token) == [op |-> op, rid |-> rid, data |-> data, token |-> token]

\* one request handled from start to response
Handle(request, r) ==
  /\ nreq < MaxRequests
  /\ db' = r.db
  /\ prev' = db
  /\ last' = request
  /\ resp' = [status |-> r.status, body |-> r.body]
  /\ nreq' = nreq + 1
  /\ UNCHANGED <<pc, sess, writer>>

Register ==
  \E data \in RegisterBodies :
    Handle(Request("register", 0, data, NoStr), register(db, data))

Login ==
  \E data \in LoginBodies :
    Handle(Request("login", 0, data, NoStr), login(db, data))

ListRestaurants ==
  Handle(Request("list_restaurants", 0, NoBody, NoStr), list_restaurants(db))

GetRestaurantView ==
  \E rid \in Rids :
    Handle(Request("get_restaurant", rid, NoBody, NoStr), get_restaurant(db, rid))

AddMenuItem ==
  \E rid \in Rids, data \in MenuBodies :
    Handle(Request("add_menu_item", rid, data, NoStr), add_menu_item(db, rid, data))

AddTable ==
  \E rid \in Rids, data \in TableBodies :
    Handle(Request("add_table", rid, data, NoStr), add_table(db, rid, data))

AddIncome ==
  \E rid \in Rids, data \in IncomeBodies :
    Handle(Request("add_income", rid, data, NoStr), add_income(db, rid, data))

AddFeedback ==
  \E rid \in Rids, data \in FeedbackBodies :
    Handle(Request("add_feedback", rid, data, NoStr), add_feedback(db, rid, data))

CreateOrder ==
  \E rid \in Rids, data \in OrderBodies, order_id \in OrderIds :
    Handle(Request("create_order", rid, data, order_id),
           create_order(db, rid, data, order_id))

Health == Handle(Request("health", 0, NoBody, NoStr), health(db))

Conns == 1..NumConns

NoRequest == Request("init", 0, NoBody, NoStr)
NoResponse == [status |-> 0, body |-> NoBody]

Init ==
  /\ db = SeedDb
  /\ prev = SeedDb
  /\ last = NoRequest
  /\ resp = NoResponse
  /\ nreq = 0
  /\ pc = [c \in Conns |-> "idle"]
  /\ sess = [c \in Conns |-> NoBody]
  /\ writer = 0

Next ==
  \/ Register
  \/ Login
  \/ ListRestaurants
  \/ GetRestaurantView
  \/ AddMenuItem
  \/ AddTable
  \/ AddIncome
  \/ AddFeedback
  \/ CreateOrder
  \/ Health

Spec == Init /\ [][Next]_vars

\* ------------------------------------------------- stores with bookings
\* No route inserts a Booking; the rows a full view flattens are those an
\* existing rms.db already holds.  SpecView starts from every store made of
\* the demo data, a second restaurant, up to MaxViewTables more tables of
\* either restaurant and up to MaxViewBookings bookings, each of any table
\* id (SQLite does not enforce the foreign key, so one may name no table).
ViewNums == <<"4", "5", "6", "7">>

SeqsUpTo(S, n) == UNION {[1..k -> S] : k \in 0..n}

ViewTables(owners) ==
  SeedDb.tables \o
  [k \in 1..Len(owners) |->
     [id |-> Len(SeedDb.tables) + k, restaurant_id |-> owners[k],
      num |-> ViewNums[k], status |-> "Available"]]

ViewBookings(tids) ==
  [k \in 1..Len(tids) |->
     [id |-> k, table_id |-> tids[k], user_name |-> "Asha",
      start |-> "18:00", end |-> "19:00"]]

ViewStores ==
  {[SeedDb EXCEPT
      !.restaurants = Append(@, [id |-> 2, name |-> "Raj", logo |-> NoStr]),
      !.tables = ViewTables(owners),
      !.bookings = ViewBookings(tids)] :
     owners \in SeqsUpTo(Rids, MaxViewTables),
     tids \in SeqsUpTo(1..(Len(SeedDb.tables) + MaxViewTables + 1), MaxViewBookings)}

InitView ==
  /\ db \in ViewStores
  /\ prev = db
  /\ last = NoRequest
  /\ resp = NoResponse
  /\ nreq = 0
  /\ pc = [c \in Conns |-> "idle"]
  /\ sess = [c \in Conns |-> NoBody]
  /\ writer = 0

NextView == GetRestaurantView

SpecView == InitView /\ [][NextView]_vars

\* ------------------------------------------- concurrent create_order
\* The development server handles each request on its own thread, each with
\* its own session and SQLite connection.  SpecConc runs NumConns
\* create_order requests statement by statement.  A session's first INSERT or
\* UPDATE opens its transaction and takes SQLite's write lock, which it holds
\* to COMMIT or ROLLBACK; a connection that needs the lock waits for it, and
\* gives up with "database is locked" when the busy timeout ends first.
\* Query.first() flushes the session's unflushed writes before it reads.

\* variant: the order is added to the session after the loop
OrderAddedAfterLoop == FALSE

\* db.session.add(o) comes before the loop: the session has an unflushed
\* write when the loop's first query runs
OrderPendingBeforeLoop == TRUE

ConcItemLists ==
  {<<LineItem(1, JInt(2))>>,
   <<LineItem(NoId, JInt(5)), LineItem(1, Absent), LineItem(2, JInt(3))>>,
   <<LineItem(1, JInt(1)), LineItem(1, JBad)>>}

\* whether connection c can take, or holds, the write lock
CanWrite(c) == writer \in {0, c}

NoCounts == [k \in {} |-> 0]

\* the response is sent and the session removed; a failure rolls back and
\* both ways release the write lock
Finished(c, status, store) ==
  /\ pc' = [pc EXCEPT ![c] = "done"]
  /\ sess' = [sess EXCEPT ![c] = [@ EXCEPT !.status = status]]
  /\ writer' = IF writer = c THEN 0 ELSE writer
  /\ db' = store

\* the session's INSERT of the order would break the primary key
OrderIdTaken(c) == \E i \in 1..Len(db.orders) : db.orders[i].id = sess[c].token

\* lines 291-307: the restaurant is looked up, the Order built and added
CBegin(c) ==
  /\ pc[c] = "idle"
  /\ \E rid \in Rids, items \in ConcItemLists, order_id \in OrderIds :
       LET s == [rid |-> rid, items |-> items, token |-> order_id, i |-> 1,
                 unflushed |-> OrderPendingBeforeLoop, inserted |-> FALSE,
                 counts |-> NoCounts, status |-> 0,
                 overlapped |-> \E o \in Conns : pc[o] = "loop"]
       IN IF ~RestaurantExists(db, rid)
          THEN /\ pc' = [pc EXCEPT ![c] = "done"]
               /\ sess' = [sess EXCEPT ![c] = [s EXCEPT !.status = 404]]
          ELSE /\ pc' = [pc EXCEPT ![c] = "loop"]
               /\ sess' = [sess EXCEPT ![c] = s]
  /\ UNCHANGED <<db, prev, last, resp, nreq, writer>>

\* lines 310-316: one pass of the loop
CLine(c) ==
  /\ pc[c] = "loop"
  /\ sess[c].i <= Len(sess[c].items)
  /\ LET s == sess[c]
         it == s.items[s.i]
         qty == PyInt(GetOr(it.qty, JInt(1)))
     IN IF ~qty.ok THEN Finished(c, 500, db)
        ELSE IF it.id = NoId
        THEN /\ sess' = [sess EXCEPT ![c].i = @ + 1]
             /\ UNCHANGED <<db, pc, writer>>
        ELSE /\ s.unflushed => CanWrite(c)
             /\ IF s.unflushed /\ ~s.inserted /\ OrderIdTaken(c)
                THEN Finished(c, 500, db)
                ELSE LET k == MenuItemById(db, it.id, s.rid)
                         cur == IF k \in DOMAIN s.counts THEN s.counts[k]
                                ELSE db.menu_items[k].order_count
                     IN /\ writer' = IF s.unflushed THEN c ELSE writer
                        /\ sess' = [sess EXCEPT ![c] =
                             [s EXCEPT
                                !.i = @ + 1,
                                !.inserted = @ \/ s.unflushed,
                                !.unflushed = k # 0,
                                !.counts = IF k # 0
                                           THEN (k :> (cur + qty.v)) @@ @
                                           ELSE @]]
                        /\ UNCHANGED <<db, pc>>
  /\ UNCHANGED <<prev, last, resp, nreq>>

\* line 318: db.session.commit() flushes what is left and commits
CCommit(c) ==
  /\ pc[c] = "loop"
  /\ sess[c].i > Len(sess[c].items)
  /\ CanWrite(c)
  /\ LET s == sess[c]
         o == [id |-> s.token, restaurant_id |-> s.rid, user_name |-> "Guest",
               items |-> s.items, total |-> 0, method |-> "online"]
     IN IF ~s.inserted /\ OrderIdTaken(c)
        THEN Finished(c, 500, db)
        ELSE Finished(c, 201,
               [db EXCEPT
                  !.orders = Append(@, o),
                  !.menu_items = [k \in 1..Len(@) |->
                     IF k \in DOMAIN s.counts
                     THEN [@[k] EXCEPT !.order_count = s.counts[k]]
                     ELSE @[k]]])
  /\ UNCHANGED <<prev, last, resp, nreq>>

\* the statement connection c is about to run needs the write lock
WantsLock(c) ==
  /\ pc[c] = "loop"
  /\ \/ sess[c].i > Len(sess[c].items)
     \/ /\ sess[c].i <= Len(sess[c].items)
        /\ sess[c].unflushed
        /\ sess[c].items[sess[c].i].id # NoId
        /\ PyInt(GetOr(sess[c].items[sess[c].i].qty, JInt(1))).ok

\* the busy timeout ends before the lock is free: OperationalError, 500
CLockTimeout(c) ==
  /\ WantsLock(c)
  /\ ~CanWrite(c)
  /\ Finished(c, 500, db)
  /\ UNCHANGED <<prev, last, resp, nreq>>

NextConc ==
  \E c \in Conns :
    \/ CBegin(c)
    \/ CLine(c)
    \/ CCommit(c)
    \/ CLockTimeout(c)

SpecConc == Init /\ [][NextConc]_vars

\* ------------------------------------------------------------------ claims
Abs(x) == IF x < 0 THEN -x ELSE x

\* a quantity as a number, in tenths; 1 when the line has no qty
QtyTenths(q) ==
  CASE q.kind = "absent" -> 10
    [] q.kind = "frac" -> q.n
    [] OTHER -> 10 * q.n

\* the integer part of t tenths: the integer nearest zero-ward
IntPart(t) ==
  CHOOSE k \in -Abs(t)..Abs(t) :
    /\ Abs(10 * k) <= Abs(t)
    /\ Abs(t) < Abs(10 * k) + 10
    /\ (k # 0 => (k > 0 <=> t > 0))

RECURSIVE SumQtyTenths(_, _, _)
\* sum, in tenths, of the quantities of the lines items[i..] naming mid
SumQtyTenths(items, mid, i) ==
  IF i > Len(items) THEN 0
  ELSE (IF items[i].id = mid THEN QtyTenths(items[i].qty) ELSE 0)
       + SumQtyTenths(items, mid, i + 1)

RECURSIVE SumQtyInt(_, _, _)
\* sum of the integer parts of the quantities of the lines items[i..] naming mid
SumQtyInt(items, mid, i) ==
  IF i > Len(items) THEN 0
  ELSE (IF items[i].id = mid THEN IntPart(QtyTenths(items[i].qty)) ELSE 0)
       + SumQtyInt(items, mid, i + 1)

OrderPlaced == last.op = "create_order" /\ resp.status = 201

HadRestaurant(rid) == \E i \in 1..Len(prev.restaurants) : prev.restaurants[i].id = rid

\* what every successful create_order leaves besides the counts: one more
\* Order row, for the restaurant, the menu rows otherwise as they were, and
\* the counts shown by the next get_restaurant
OrderStoredAndShown ==
  /\ Len(db.orders) = Len(prev.orders) + 1
  /\ db.orders[Len(db.orders)].id = last.token
  /\ db.orders[Len(db.orders)].restaurant_id = last.rid
  /\ Len(db.menu_items) = Len(prev.menu_items)
  /\ \A k \in 1..Len(db.menu_items) :
       [db.menu_items[k] EXCEPT !.order_count = 0]
         = [prev.menu_items[k] EXCEPT !.order_count = 0]
  /\ LET view == get_restaurant(db, last.rid)
     IN /\ view.status = 200
        /\ \A k \in 1..Len(db.menu_items) :
             db.menu_items[k].restaurant_id = last.rid =>
               \E j \in 1..Len(view.body.menu) :
                 /\ view.body.menu[j].id = db.menu_items[k].id
                 /\ view.body.menu[j].orderCount = db.menu_items[k].order_count

\* unresolved ids do not fail the request: with the restaurant present, the
\* total and every qty convertible and the token fresh, the answer is 201
UnresolvedIdsStill201 ==
  (/\ last.op = "create_order"
   /\ HadRestaurant(last.rid)
   /\ last.data.total.kind # "bad"
   /\ \A i \in 1..Len(last.data.items) : last.data.items[i].qty.kind # "bad"
   /\ \A i \in 1..Len(prev.orders) : prev.orders[i].id # last.token)
  => resp.status = 201

\* C1 as stated: after a successful create_order on restaurant R every menu
\* item of R has grown by exactly the sum of the quantities (1 when absent) of
\* the lines naming it, every other item is unchanged, lines that resolve to
\* nothing are skipped, the order is stored, and get_restaurant shows the counts
C1_CountsGrowBySumOfQuantities ==
  /\ UnresolvedIdsStill201
  /\ OrderPlaced =>
       /\ OrderStoredAndShown
       /\ \A k \in 1..Len(prev.menu_items) :
            10 * (db.menu_items[k].order_count - prev.menu_items[k].order_count)
              = IF prev.menu_items[k].restaurant_id = last.rid
                THEN SumQtyTenths(last.data.items, prev.menu_items[k].id, 1)
                ELSE 0

\* C1 amended: the same, each quantity counted by its integer part (a qty of
\* 2.5 adds 2)
C1_CountsGrowBySumOfIntegerParts ==
  /\ UnresolvedIdsStill201
  /\ OrderPlaced =>
       /\ OrderStoredAndShown
       /\ \A k \in 1..Len(prev.menu_items) :
            db.menu_items[k].order_count - prev.menu_items[k].order_count
              = IF prev.menu_items[k].restaurant_id = last.rid
                THEN SumQtyInt(last.data.items, prev.menu_items[k].id, 1)
                ELSE 0

\* an order on restaurant 1 naming item 1 twice, and between them an item of
\* restaurant 2, was placed and added 3 to item 1
C1_Witness ==
  /\ OrderPlaced
  /\ last.rid = 1
  /\ Len(last.data.items) = 3
  /\ \E k \in 1..Len(prev.menu_items) :
       /\ prev.menu_items[k].id = last.data.items[2].id
       /\ prev.menu_items[k].restaurant_id = 2
  /\ db.menu_items[1].order_count = prev.menu_items[1].order_count + 3

\* C2: no two stored users share an email; a register whose email is already
\* stored answers 400 and leaves the store as it was
C2_EmailUnique ==
  /\ \A i, j \in 1..Len(db.users) : db.users[i].email = db.users[j].email => i = j
  /\ (/\ last.op = "register"
      /\ \E i \in 1..Len(prev.users) : prev.users[i].email = last.data.email)
     => resp.status = 400 /\ db = prev

\* a register with an email that a stored user already has was refused
C2_Witness ==
  /\ last.op = "register"
  /\ resp.status = 400
  /\ \E i \in 1..Len(prev.users) : prev.users[i].email = last.data.email

\* C3: a successful register of type restaurant adds exactly one Restaurant
\* and stores the user with its id, one of type customer adds none; every
\* stored restaurant user refers to an existing Restaurant
C3_RestaurantLinked ==
  /\ (last.op = "register" /\ resp.status = 201) =>
       /\ Len(db.users) = Len(prev.users) + 1
       /\ SubSeq(db.users, 1, Len(prev.users)) = prev.users
       /\ IF last.data.type = "restaurant"
          THEN /\ Len(db.restaurants) = Len(prev.restaurants) + 1
               /\ SubSeq(db.restaurants, 1, Len(prev.restaurants)) = prev.restaurants
               /\ db.users[Len(db.users)].restaurant_id
                    = db.restaurants[Len(db.restaurants)].id
          ELSE db.restaurants = prev.restaurants
  /\ \A i \in 1..Len(db.users) :
       db.users[i].type = "restaurant" =>
         /\ db.users[i].restaurant_id # 0
         /\ \E j \in 1..Len(db.restaurants) :
              db.restaurants[j].id = db.users[i].restaurant_id

\* a restaurant account was registered after a customer account
C3_Witness ==
  /\ last.op = "register"
  /\ resp.status = 201
  /\ last.data.type = "restaurant"
  /\ \E i \in 1..Len(prev.users) : prev.users[i].type = "customer"

\* the given status, "Available" when the request has none
GivenStatus == IF last.data.status = NoStr THEN "Available" ELSE last.data.status

\* C4: a restaurant has at most one Table row per number; add_table on a
\* present (restaurant, num) only sets that row's status, on an absent one adds
\* exactly one row; no other row changes
C4_TableUpsert ==
  /\ \A i, j \in 1..Len(db.tables) :
       (/\ db.tables[i].restaurant_id = db.tables[j].restaurant_id
        /\ db.tables[i].num = db.tables[j].num) => i = j
  /\ (last.op = "add_table" /\ resp.status = 201) =>
       IF \E k \in 1..Len(prev.tables) :
            prev.tables[k].restaurant_id = last.rid /\ prev.tables[k].num = last.data.num
       THEN /\ Len(db.tables) = Len(prev.tables)
            /\ \A k \in 1..Len(prev.tables) :
                 IF prev.tables[k].restaurant_id = last.rid
                    /\ prev.tables[k].num = last.data.num
                 THEN db.tables[k] = [prev.tables[k] EXCEPT !.status = GivenStatus]
                 ELSE db.tables[k] = prev.tables[k]
       ELSE /\ Len(db.tables) = Len(prev.tables) + 1
            /\ SubSeq(db.tables, 1, Len(prev.tables)) = prev.tables
            /\ db.tables[Len(db.tables)].restaurant_id = last.rid
            /\ db.tables[Len(db.tables)].num = last.data.num
            /\ db.tables[Len(db.tables)].status = GivenStatus

\* restaurants 1 and 2 both hold a table "1", and the last add_table set the
\* status of restaurant 2's in place
C4_Witness ==
  /\ last.op = "add_table"
  /\ resp.status = 201
  /\ last.rid = 2
  /\ last.data.num = "1"
  /\ Len(db.tables) = Len(prev.tables)
  /\ db.tables # prev.tables

\* C5 as stated: a new menu item starts at 0, no request lowers the
\* order_count of an existing menu item, and only create_order changes it
C5_OrderCountMonotonic ==
  /\ \A k \in 1..Len(db.menu_items) :
       k > Len(prev.menu_items) => db.menu_items[k].order_count = 0
  /\ \A k \in 1..Len(prev.menu_items) :
       /\ db.menu_items[k].order_count >= prev.menu_items[k].order_count
       /\ last.op # "create_order" =>
            db.menu_items[k].order_count = prev.menu_items[k].order_count

RestaurantScoped ==
  {"get_restaurant", "add_menu_item", "add_table", "add_income", "add_feedback",
   "create_order"}

\* C6: a restaurant-scoped request on an id the store does not hold answers
\* 404 with the not-found error and leaves the store as it was
C6_UnknownRestaurant404 ==
  (last.op \in RestaurantScoped /\ ~HadRestaurant(last.rid)) =>
    /\ resp.status = 404
    /\ resp.body = [error |-> "Not Found"]
    /\ db = prev

\* an order with line items was sent to a restaurant id the store lacks
C6_Witness ==
  /\ last.op = "create_order"
  /\ ~HadRestaurant(last.rid)
  /\ Len(last.data.items) > 0
  /\ resp.status = 404

\* C7: a request that does not end in success persists none of its writes
C7_NoPartialCommit ==
  (nreq > 0 /\ resp.status \notin {200, 201}) => db = prev

\* a create_order failed on a malformed qty after a line that resolved
C7_Witness ==
  /\ last.op = "create_order"
  /\ resp.status = 500
  /\ HadRestaurant(last.rid)
  /\ Len(last.data.items) = 2
  /\ \A i \in 1..Len(prev.orders) : prev.orders[i].id # last.token
  /\ last.data.items[1].qty.kind = "int"
  /\ \E k \in 1..Len(prev.menu_items) :
       /\ prev.menu_items[k].id = last.data.items[1].id
       /\ prev.menu_items[k].restaurant_id = last.rid
  /\ last.data.items[2].qty.kind = "bad"

KnownEmail(store, email) == \E i \in 1..Len(store.users) : store.users[i].email = email

WrongPassword(store, data) ==
  \E i \in 1..Len(store.users) :
    /\ store.users[i].email = data.email
    /\ ~CheckPasswordHash(store.users[i].password_hash, data.password)

\* C9: in every store, a login with an unknown email and a login with a known
\* email and a wrong password get the same 401 answer and leave the store as
\* it was; the login just handled got that answer if it was either
C9_LoginFailsUniformly ==
  /\ \A d1, d2 \in LoginBodies :
       (/\ d1.password # NoStr /\ d2.password # NoStr
        /\ ~KnownEmail(db, d1.email)
        /\ WrongPassword(db, d2)) =>
         /\ login(db, d1) = login(db, d2)
         /\ login(db, d1).status = 401
         /\ login(db, d1).db = db
  /\ (/\ last.op = "login"
      /\ last.data.password # NoStr
      /\ ~KnownEmail(prev, last.data.email) \/ WrongPassword(prev, last.data)) =>
       /\ resp = [status |-> 401, body |-> [error |-> "Invalid email or password"]]
       /\ db = prev

\* a login with a registered email and a wrong password was refused while
\* another email is not registered
C9_Witness ==
  /\ last.op = "login"
  /\ resp.status = 401
  /\ WrongPassword(prev, last.data)
  /\ \E d \in LoginBodies : ~KnownEmail(db, d.email)

\* the index in db.tables of the table a booking belongs to, 0 if none
TableIndexOf(b) ==
  IF \E k \in 1..Len(db.tables) : db.tables[k].id = b.table_id
  THEN CHOOSE k \in 1..Len(db.tables) : db.tables[k].id = b.table_id
  ELSE 0

\* the indexes in db.bookings of the bookings of restaurant rid's tables
BookingsOfRestaurant(rid) ==
  {n \in 1..Len(db.bookings) :
     /\ TableIndexOf(db.bookings[n]) # 0
     /\ db.tables[TableIndexOf(db.bookings[n])].restaurant_id = rid}

\* C8: the bookings of the full view of restaurant R are exactly the bookings
\* of R's tables, each once, so as many as those tables hold together, none of
\* another restaurant's table, ordered by table first and by booking within a
\* table
C8_BookingsFlattened ==
  (last.op = "get_restaurant" /\ resp.status = 200) =>
    LET shown == resp.body.bookings
        \* the stored row behind the n-th shown booking
        Row(n) == db.bookings[shown[n].id]
    IN /\ Len(shown) = Cardinality(BookingsOfRestaurant(last.rid))
       /\ \A n \in 1..Len(shown) :
            /\ shown[n].id \in BookingsOfRestaurant(last.rid)
            /\ shown[n].tableNum = db.tables[TableIndexOf(Row(n))].num
       /\ \A m, n \in 1..Len(shown) :
            m < n =>
              \/ TableIndexOf(Row(m)) < TableIndexOf(Row(n))
              \/ /\ TableIndexOf(Row(m)) = TableIndexOf(Row(n))
                 /\ shown[m].id < shown[n].id

\* a view was served that shows a later-stored booking of an earlier table
\* before an earlier-stored booking of a later table, while the store also
\* holds a booking of the other restaurant
C8_Witness ==
  /\ last.op = "get_restaurant"
  /\ resp.status = 200
  /\ Len(resp.body.bookings) >= 2
  /\ \E m, n \in 1..Len(resp.body.bookings) :
       m < n /\ resp.body.bookings[m].id > resp.body.bookings[n].id
  /\ \E n \in 1..Len(db.bookings) :
       /\ TableIndexOf(db.bookings[n]) # 0
       /\ db.tables[TableIndexOf(db.bookings[n])].restaurant_id # last.rid

\* what connection c's request adds to menu item k when it is carried out
Adds(c, k) ==
  IF SeedDb.menu_items[k].restaurant_id = sess[c].rid
  THEN SumQtyInt(sess[c].items, SeedDb.menu_items[k].id, 1)
  ELSE 0

RECURSIVE SumAdds(_, _, _)
\* the sum of Adds(c, k) over the connections c of cs
SumAdds(cs, k, n) ==
  IF n = 0 THEN 0
  ELSE (IF n \in cs THEN Adds(n, k) ELSE 0) + SumAdds(cs, k, n - 1)

AllDone == \A c \in Conns : pc[c] = "done"

====
